---- MODULE Spec2Model ----
(***************************************************************************)
(* Event planner record stores: BaseTracker and its three subclasses       *)
(* GuestManager, TaskManager and BudgetManager.                            *)
(*                                                                         *)
(* Each tracker owns one in-memory list (self.data) and one backing file   *)
(* (self.filename).  The three trackers share no state and no file, so a   *)
(* behaviour of this module follows one tracker instance, chosen in Init   *)
(* (variable tracker), together with its file.                             *)
(*                                                                         *)
(* Python str values are sequences of one-character strings, so that       *)
(* strip(), lower() and title() are computed character by character.       *)
(* Python floats are named by their value in hundredths where they are     *)
(* stored and are 53-bit binary numbers where they are added.              *)
(*                                                                         *)
(* Spec follows a tracker used on its own.  SpecApp follows the same       *)
(* tracker inside EventPlannerApp, with the event date, the countdown      *)
(* timer and the summary, and with storage that does not fail.             *)
(***************************************************************************)
EXTENDS Integers, Sequences, FiniteSets, TLC

----------------------------------------------------------------------------
(* Bounds *)

\* largest number of records a tracker's list holds
MaxRecords == 3

\* largest number of storage failures (open, read or write) in one behaviour
MaxFaults == 1

----------------------------------------------------------------------------
(* Python str methods *)

LowerLetters == <<"a","b","c","d","e","f","g","h","i","j","k","l","m",
                  "n","o","p","q","r","s","t","u","v","w","x","y","z">>

UpperLetters == <<"A","B","C","D","E","F","G","H","I","J","K","L","M",
                  "N","O","P","Q","R","S","T","U","V","W","X","Y","Z">>

Range(s) == { s[i] : i \in DOMAIN s }

IndexOf(c, s) == CHOOSE i \in DOMAIN s : s[i] = c

\* the lower-case letter of every upper-case letter
LowerOf == [c \in Range(UpperLetters) |-> LowerLetters[IndexOf(c, UpperLetters)]]

\* the upper-case letter of every lower-case letter
UpperOf == [c \in Range(LowerLetters) |-> UpperLetters[IndexOf(c, LowerLetters)]]

IsLower(c) == c \in DOMAIN UpperOf

IsUpper(c) == c \in DOMAIN LowerOf

IsCased(c) == IsLower(c) \/ IsUpper(c)

Whitespace == {" ", "\t", "\n"}

LowerChar(c) == IF IsUpper(c) THEN LowerOf[c] ELSE c

UpperChar(c) == IF IsLower(c) THEN UpperOf[c] ELSE c

\* str.lower()
Lower(s) == [i \in DOMAIN s |-> LowerChar(s[i])]

RECURSIVE LStrip(_)
\* str.lstrip()
LStrip(s) ==
    IF s # <<>> /\ Head(s) \in Whitespace THEN LStrip(Tail(s)) ELSE s

RECURSIVE RStrip(_)
\* str.rstrip()
RStrip(s) ==
    IF s # <<>> /\ s[Len(s)] \in Whitespace
    THEN RStrip(SubSeq(s, 1, Len(s) - 1))
    ELSE s

\* str.strip()
Strip(s) == RStrip(LStrip(s))

\* str.title(): a cased character is upper-cased when the character before it
\* is not cased (or there is none) and lower-cased otherwise
Title(s) ==
    [i \in DOMAIN s |->
        IF i > 1 /\ IsCased(s[i - 1]) THEN LowerChar(s[i]) ELSE UpperChar(s[i])]

----------------------------------------------------------------------------
(* Python float: float(str), comparison with 0 *)

Digits == <<"0","1","2","3","4","5","6","7","8","9">>

IsDigit(c) == c \in Range(Digits)

DigitVal(c) == IndexOf(c, Digits) - 1

\* A float is [cls, v]: cls = "finite" with v its value in hundredths,
\* cls = "inf" with v = 1 or -1 its sign, or cls = "nan" with v = 0.
Finite(h) == [cls |-> "finite", v |-> h]

Infinity(sign) == [cls |-> "inf", v |-> sign]

NaN == [cls |-> "nan", v |-> 0]

RECURSIVE DecimalValue(_)
\* value of a sequence of decimal digits
DecimalValue(ds) ==
    IF ds = <<>> THEN 0
    ELSE 10 * DecimalValue(SubSeq(ds, 1, Len(ds) - 1)) + DigitVal(ds[Len(ds)])

AllDigits(s) == \A i \in DOMAIN s : IsDigit(s[i])

\* hundredths denoted by the digits after the decimal point
FractionHundredths(fs) ==
    IF fs = <<>> THEN 0
    ELSE IF Len(fs) = 1 THEN 10 * DigitVal(fs[1])
    ELSE 10 * DigitVal(fs[1]) + DigitVal(fs[2])

\* the unsigned body of a float literal: inf, infinity, nan in any case, or
\* digits with an optional decimal point (exponents and underscores, which
\* float() also accepts, are not used by any input of this module)
ParseUnsigned(body) ==
    LET low  == Lower(body)
        dots == { i \in DOMAIN body : body[i] = "." }
        dot  == IF dots = {} THEN Len(body) + 1 ELSE CHOOSE i \in dots : TRUE
        ip   == SubSeq(body, 1, dot - 1)
        fp   == SubSeq(body, dot + 1, Len(body))
    IN  IF low \in { <<"i","n","f">>, <<"i","n","f","i","n","i","t","y">> }
        THEN [ok |-> TRUE, val |-> Infinity(1)]
        ELSE IF low = <<"n","a","n">>
        THEN [ok |-> TRUE, val |-> NaN]
        ELSE IF /\ Cardinality(dots) <= 1
                /\ AllDigits(ip) /\ AllDigits(fp)
                /\ Len(ip) + Len(fp) > 0
        THEN [ok |-> TRUE,
              val |-> Finite(100 * DecimalValue(ip) + FractionHundredths(fp))]
        ELSE [ok |-> FALSE, val |-> NaN]

Negate(f) == IF f.cls = "nan" THEN f ELSE [f EXCEPT !.v = 0 - f.v]

\* float(s) for a str s: ok = FALSE stands for ValueError
ParseFloat(s) ==
    LET t == Strip(s)
    IN  IF t # <<>> /\ Head(t) = "-"
        THEN LET r == ParseUnsigned(Tail(t))
             IN  [ok |-> r.ok, val |-> Negate(r.val)]
        ELSE IF t # <<>> /\ Head(t) = "+"
        THEN ParseUnsigned(Tail(t))
        ELSE ParseUnsigned(t)

\* f <= 0: every comparison with nan is False
FloatLeqZero(f) ==
    CASE f.cls = "nan"    -> FALSE
      [] f.cls = "inf"    -> f.v < 0
      [] f.cls = "finite" -> f.v <= 0

\* bits of the significand of a Python float (IEEE 754 binary64)
Precision == 53

\* the int 0 that get_budget_summary starts its sums with
Zero == [cls |-> "zero"]

RECURSIVE Zeros(_)
\* n zero bits
Zeros(n) ==
    IF n = 0 THEN <<>>
    ELSE IF n = 1 THEN <<0>>
    ELSE Zeros(n \div 2) \o Zeros(n - (n \div 2))

RECURSIVE IntBits(_)
\* binary digits of a natural number, most significant first; <<>> for 0
IntBits(q) ==
    IF q = 0 THEN <<>> ELSE Append(IntBits(q \div 2), q % 2)

RECURSIVE FracBits(_, _)
\* the first n binary digits of r/100 after the point, and the remainder
\* (in hundredths) that stands behind them; computed by halves
FracBits(r, n) ==
    IF n = 0 THEN [bits |-> <<>>, rem |-> r]
    ELSE IF n = 1 THEN [bits |-> <<(2 * r) \div 100>>, rem |-> (2 * r) % 100]
    ELSE LET first  == FracBits(r, n \div 2)
             second == FracBits(first.rem, n - (n \div 2))
         IN  [bits |-> first.bits \o second.bits, rem |-> second.rem]

RECURSIVE LeadingZeros(_)
LeadingZeros(bits) ==
    IF bits = <<>> \/ Head(bits) = 1 THEN 0 ELSE 1 + LeadingZeros(Tail(bits))

RECURSIVE AddCarry(_, _, _)
\* binary sum of two bit sequences of the same length and a carry, as the
\* bits of that length and the carry out; computed by halves
AddCarry(a, b, carry) ==
    IF a = <<>> THEN [bits |-> <<>>, carry |-> carry]
    ELSE IF Len(a) = 1
    THEN [bits |-> <<(a[1] + b[1] + carry) % 2>>,
          carry |-> (a[1] + b[1] + carry) \div 2]
    ELSE LET h    == Len(a) \div 2
             low  == AddCarry(SubSeq(a, h + 1, Len(a)), SubSeq(b, h + 1, Len(b)), carry)
             high == IF low.carry = 1
                     THEN AddCarry(SubSeq(a, 1, h), SubSeq(b, 1, h), 1)
                     ELSE AddCarry(SubSeq(a, 1, h), SubSeq(b, 1, h), 0)
         IN  [bits |-> high.bits \o low.bits, carry |-> high.carry]

\* the sum as one bit sequence, one bit longer when it carries out
AddBits(a, b, carry) ==
    LET sum == AddCarry(a, b, carry)
    IN  IF sum.carry = 1 THEN <<1>> \o sum.bits ELSE sum.bits

\* the float nearest to 1.b2b3... * 2^exp (bits = <<1, b2, b3, ...>>), with
\* ties to the even significand; rest says that the exact value has non-zero
\* digits after bits
RoundToDouble(bits, exp, rest) ==
    IF Len(bits) <= Precision
    THEN [cls |-> "num", exp |-> exp,
          bits |-> bits \o Zeros(Precision - Len(bits))]
    ELSE LET kept   == SubSeq(bits, 1, Precision)
             guard  == bits[Precision + 1]
             sticky == rest \/ \E i \in (Precision + 2)..Len(bits) : bits[i] = 1
             up     == guard = 1 /\ (sticky \/ kept[Precision] = 1)
             raised == AddBits(kept, Zeros(Precision), 1)
         IN  IF ~up THEN [cls |-> "num", exp |-> exp, bits |-> kept]
             ELSE IF Len(raised) = Precision
             THEN [cls |-> "num", exp |-> exp, bits |-> raised]
             ELSE [cls |-> "num", exp |-> exp + 1,
                   bits |-> SubSeq(raised, 1, Precision)]

\* the float that float() makes of the decimal h/100, h > 0
ToBinary(h) ==
    LET whole == IntBits(h \div 100)
        frac  == FracBits(h % 100, 2 * Precision)
        all   == whole \o frac.bits
        z     == LeadingZeros(all)
    IN  RoundToDouble(SubSeq(all, z + 1, Len(all)), Len(whole) - 1 - z, frac.rem # 0)

\* a stored amount as the float it is; amounts below zero are never stored
ToDouble(f) ==
    CASE f.cls = "nan"    -> [cls |-> "nan"]
      [] f.cls = "inf"    -> [cls |-> "inf"]
      [] f.cls = "finite" -> IF f.v = 0 THEN Zero ELSE ToBinary(f.v)

\* x + y for two floats that are not below zero (or the int 0)
FAdd(x, y) ==
    IF x.cls = "nan" \/ y.cls = "nan" THEN [cls |-> "nan"]
    ELSE IF x.cls = "inf" \/ y.cls = "inf" THEN [cls |-> "inf"]
    ELSE IF x.cls = "zero" THEN y
    ELSE IF y.cls = "zero" THEN x
    ELSE LET big   == IF x.exp >= y.exp THEN x ELSE y
             small == IF x.exp >= y.exp THEN y ELSE x
             d     == big.exp - small.exp
             sum   == AddBits(big.bits \o Zeros(d), Zeros(d) \o small.bits, 0)
         IN  RoundToDouble(sum,
                           IF Len(sum) > Precision + d THEN big.exp + 1 ELSE big.exp,
                           FALSE)

----------------------------------------------------------------------------
(* json.dump / json.load of a list of dicts *)

\* keys of the three kinds of dict, in the order the code inserts them
KeyOrder ==
    <<"name", "email", "phone", "rsvp", "added_date",
      "id", "category", "description", "priority", "due_date", "completed",
      "created_date", "completed_date", "amount", "date">>

\* Python type of the value the code stores under a key
PyType(key) ==
    CASE key = "id"        -> "int"
      [] key = "completed" -> "bool"
      [] key = "amount"    -> "float"
      [] OTHER             -> "str"

\* JSON text of one value
JsonEncode(key, val) ==
    CASE PyType(key) = "str"   -> [j |-> "string", lit |-> val]
      [] PyType(key) = "int"   -> [j |-> "int", lit |-> val]
      [] PyType(key) = "bool"  -> [j |-> IF val THEN "true" ELSE "false", lit |-> 0]
      [] PyType(key) = "float" ->
            CASE val.cls = "nan"    -> [j |-> "NaN", lit |-> 0]
              [] val.cls = "inf"    -> [j |-> "Infinity", lit |-> val.v]
              [] val.cls = "finite" -> [j |-> "float", lit |-> val.v]

\* Python value of one JSON value
JsonDecode(jv) ==
    CASE jv.j = "string"   -> jv.lit
      [] jv.j = "int"      -> jv.lit
      [] jv.j = "true"     -> TRUE
      [] jv.j = "false"    -> FALSE
      [] jv.j = "NaN"      -> NaN
      [] jv.j = "Infinity" -> Infinity(jv.lit)
      [] jv.j = "float"    -> Finite(jv.lit)

OpenBracket == [tok |-> "[", members |-> <<>>]

CloseBracket == [tok |-> "]", members |-> <<>>]

\* JSON object written for one dict: its members in insertion order
JsonDumpRecord(rec) ==
    LET ks == SelectSeq(KeyOrder, LAMBDA k : k \in DOMAIN rec)
    IN  [tok |-> "obj",
         members |-> [i \in 1..Len(ks) |->
                        [key |-> ks[i], val |-> JsonEncode(ks[i], rec[ks[i]])]]]

\* dict read from one JSON object
JsonLoadRecord(obj) ==
    LET ms == obj.members
    IN  [k \in { ms[i].key : i \in DOMAIN ms } |->
            JsonDecode((CHOOSE m \in Range(ms) : m.key = k).val)]

\* json.dump(data, file, indent=2): the chunks written, in order
JsonDump(records) ==
    <<OpenBracket>> \o [i \in DOMAIN records |-> JsonDumpRecord(records[i])]
                    \o <<CloseBracket>>

\* json.load(file): ok = FALSE stands for JSONDecodeError
JsonLoad(text) ==
    IF /\ Len(text) >= 2
       /\ text[1].tok = "["
       /\ text[Len(text)].tok = "]"
       /\ \A i \in 2..(Len(text) - 1) : text[i].tok = "obj"
    THEN [ok |-> TRUE,
          val |-> [i \in 1..(Len(text) - 2) |-> JsonLoadRecord(text[i + 1])]]
    ELSE [ok |-> FALSE, val |-> <<>>]

----------------------------------------------------------------------------
(* BaseTracker *)

Trackers == {"GuestManager", "TaskManager", "BudgetManager"}

NoFile == [exists |-> FALSE, text |-> <<>>]

\* the parsed list is bound to a local name and never reaches self.data
LoadData_Unassigned(f, io) ==
    IF io = "fail" THEN [data |-> <<>>, load |-> "failed"]
    ELSE IF ~f.exists THEN [data |-> <<>>, load |-> "absent"]
    ELSE IF JsonLoad(f.text).ok THEN [data |-> <<>>, load |-> "ok"]
    ELSE [data |-> <<>>, load |-> "failed"]

\* the records read before the parse error are kept
LoadData_KeepsPart(f, io) ==
    IF io = "fail" THEN [data |-> <<>>, load |-> "failed"]
    ELSE IF ~f.exists THEN [data |-> <<>>, load |-> "absent"]
    ELSE LET r == JsonLoad(f.text)
             objs == SelectSeq(f.text, LAMBDA c : c.tok = "obj")
         IN  IF r.ok THEN [data |-> r.val, load |-> "ok"]
             ELSE [data |-> [i \in DOMAIN objs |-> JsonLoadRecord(objs[i])],
                   load |-> "failed"]

\* load_data: io = "fail" when makedirs, open or read raises
LoadData(f, io) ==
    IF io = "fail" THEN [data |-> <<>>, load |-> "failed"]
    ELSE IF ~f.exists THEN [data |-> <<>>, load |-> "absent"]
    ELSE LET r == JsonLoad(f.text)
         IN  IF r.ok THEN [data |-> r.val, load |-> "ok"]
             ELSE [data |-> <<>>, load |-> "failed"]

\* outcomes of one save_data call on records: the write goes through, open()
\* raises, or the write raises once written chunks have reached the file
\* (none of them, or all but the last)
SaveOutcomes(records, mayFail) ==
    {[io |-> "ok", written |-> Len(JsonDump(records))]}
    \cup (IF mayFail
          THEN {[io |-> "open_failed", written |-> 0]}
               \cup {[io |-> "write_failed", written |-> k] :
                        k \in {0, Len(JsonDump(records)) - 1}}
          ELSE {})

\* the file is opened in append mode
SaveData_Appends(records, f, so) ==
    CASE so.io = "ok"           ->
            [exists |-> TRUE, text |-> f.text \o JsonDump(records)]
      [] so.io = "open_failed"  -> f
      [] so.io = "write_failed" ->
            [exists |-> TRUE,
             text |-> f.text \o SubSeq(JsonDump(records), 1, so.written)]

\* save_data: open(filename, 'w') truncates the file, json.dump then writes
\* the chunks; every exception is caught
SaveData(records, f, so) ==
    CASE so.io = "ok"           -> [exists |-> TRUE, text |-> JsonDump(records)]
      [] so.io = "open_failed"  -> f
      [] so.io = "write_failed" ->
            [exists |-> TRUE, text |-> SubSeq(JsonDump(records), 1, so.written)]

----------------------------------------------------------------------------
(* State *)

VARIABLES
    tracker,   \* the class of the tracker instance this behaviour follows
    data,      \* self.data
    file,      \* the file self.filename: [exists, text]
    lastOp,    \* the last call made on the tracker and how it ended
    faults,    \* number of storage failures so far
    event_date,       \* EventPlannerApp.event_date
    countdown_label,  \* text of the widget countdown_label
    summary_text,     \* what the widget summary_text shows of the tracker
    pending    \* calls of update_countdown that root.after has scheduled
               \* and that have not run yet

\* the state of the application around the tracker
appVars == <<event_date, countdown_label, summary_text, pending>>

vars == <<tracker, data, file, lastOp, faults,
          event_date, countdown_label, summary_text, pending>>

\* what a call did: ret is "None", "True", "False" or "ValueError" (raised,
\* with message msg); load and save tell how load_data / save_data went,
\* "none" when the call did not run them
Call(op, args, ret, msg, load, save) ==
    [op |-> op, args |-> args, ret |-> ret, msg |-> msg,
     load |-> load, save |-> save]

\* datetime.now() readings
Times == {[day |-> 1, minute |-> 1], [day |-> 1, minute |-> 2]}

\* strftime
Strftime(t, fmt) ==
    IF fmt = "%Y-%m-%d %H:%M"
    THEN <<Digits[t.day + 1], " ", Digits[t.minute + 1]>>
    ELSE <<Digits[t.day + 1]>>

\* files found at first construction: none, or an empty file
InitialFiles == {NoFile, [exists |-> TRUE, text |-> <<>>]}

\* BaseTracker.__init__
Construct ==
    \E io \in {"ok", "fail"} :
        /\ io = "fail" => faults < MaxFaults
        /\ LET r == LoadData(file, io)
           IN  /\ data' = r.data
               /\ lastOp' = Call("__init__", [io |-> io], "None", "", r.load, "none")
               /\ faults' = IF io = "fail" THEN faults + 1 ELSE faults
        /\ UNCHANGED <<tracker, file>>
        /\ UNCHANGED appVars

\* a datetime: a day and the minute of the day
NoDate == [day |-> 0, minute |-> 0]

\* a tracker constructed on its own, without the application
Init ==
    /\ tracker \in Trackers
    /\ file \in InitialFiles
    /\ faults = 0
    /\ LET r == LoadData(file, "ok")
       IN  /\ data = r.data
           /\ lastOp = Call("__init__", [io |-> "ok"], "None", "", r.load, "none")
    /\ event_date = NoDate
    /\ countdown_label = <<>>
    /\ summary_text = <<>>
    /\ pending = 0

\* the error is caught inside the tracker and the call returns normally
Raises_Swallowed(op, args, msg) ==
    /\ lastOp' = Call(op, args, "None", "", "none", "none")
    /\ UNCHANGED <<tracker, data, file, faults>>
    /\ UNCHANGED appVars

\* a call that raises before it touches the list or the file
Raises(op, args, msg) ==
    /\ lastOp' = Call(op, args, "ValueError", msg, "none", "none")
    /\ UNCHANGED <<tracker, data, file, faults>>
    /\ UNCHANGED appVars

\* save_data has no try/except: a failed save raises out of the call
Mutates_SaveRaises(op, args, ret, records) ==
    \E so \in SaveOutcomes(records, faults < MaxFaults) :
        /\ data' = records
        /\ file' = SaveData(records, file, so)
        /\ lastOp' = Call(op, args, IF so.io = "ok" THEN ret ELSE "OSError", "",
                          "none", so.io)
        /\ faults' = IF so.io = "ok" THEN faults ELSE faults + 1
        /\ UNCHANGED tracker
        /\ UNCHANGED appVars

\* a call that changes the list to records, runs save_data and returns ret
Mutates(op, args, ret, records) ==
    \E so \in SaveOutcomes(records, faults < MaxFaults) :
        /\ data' = records
        /\ file' = SaveData(records, file, so)
        /\ lastOp' = Call(op, args, ret, "", "none", so.io)
        /\ faults' = IF so.io = "ok" THEN faults ELSE faults + 1
        /\ UNCHANGED tracker
        /\ UNCHANGED appVars

\* save_data runs after the loop, whether or not a record matched
Returns_Saves(op, args, ret) ==
    /\ lastOp' = Call(op, args, ret, "", "none", "ok")
    /\ file' = SaveData(data, file, [io |-> "ok", written |-> Len(JsonDump(data))])
    /\ UNCHANGED <<tracker, data, faults>>
    /\ UNCHANGED appVars

\* a call that returns ret and touches neither the list nor the file
Returns(op, args, ret) ==
    /\ lastOp' = Call(op, args, ret, "", "none", "none")
    /\ UNCHANGED <<tracker, data, file, faults>>
    /\ UNCHANGED appVars

\* the keys of the dicts as the characters repr() prints
KeyChars ==
    [name |-> <<"n","a","m","e">>,
     email |-> <<"e","m","a","i","l">>,
     phone |-> <<"p","h","o","n","e">>,
     rsvp |-> <<"r","s","v","p">>,
     added_date |-> <<"a","d","d","e","d","_","d","a","t","e">>,
     id |-> <<"i","d">>,
     category |-> <<"c","a","t","e","g","o","r","y">>,
     description |-> <<"d","e","s","c","r","i","p","t","i","o","n">>,
     priority |-> <<"p","r","i","o","r","i","t","y">>,
     due_date |-> <<"d","u","e","_","d","a","t","e">>,
     completed |-> <<"c","o","m","p","l","e","t","e","d">>,
     created_date |-> <<"c","r","e","a","t","e","d","_","d","a","t","e">>,
     completed_date |-> <<"c","o","m","p","l","e","t","e","d","_","d","a","t","e">>,
     amount |-> <<"a","m","o","u","n","t">>,
     date |-> <<"d","a","t","e">>]

RECURSIVE ReprInt(_)
\* repr() of an int that is not negative
ReprInt(n) ==
    IF n < 10 THEN <<Digits[n + 1]>>
    ELSE Append(ReprInt(n \div 10), Digits[(n % 10) + 1])

\* repr() of a float: the shortest decimal that reads back as the same float,
\* which for the float nearest to h/100 is h/100 written without trailing
\* zeros and with at least one decimal
ReprFloat(f) ==
    CASE f.cls = "nan" -> <<"n","a","n">>
      [] f.cls = "inf" -> IF f.v < 0 THEN <<"-","i","n","f">> ELSE <<"i","n","f">>
      [] f.cls = "finite" ->
            LET h     == IF f.v < 0 THEN 0 - f.v ELSE f.v
                sign  == IF f.v < 0 THEN <<"-">> ELSE <<>>
                tens  == Digits[((h % 100) \div 10) + 1]
                units == Digits[(h % 10) + 1]
            IN  sign \o ReprInt(h \div 100) \o <<".">>
                     \o (IF h % 10 = 0 THEN <<tens>> ELSE <<tens, units>>)

\* repr() of the value stored under a key; the strings of this module hold
\* no quote, backslash or control character, so they print between single
\* quotes as they are
Repr(key, val) ==
    CASE PyType(key) = "str"   -> <<"'">> \o val \o <<"'">>
      [] PyType(key) = "int"   -> ReprInt(val)
      [] PyType(key) = "bool"  -> IF val THEN <<"T","r","u","e">>
                                         ELSE <<"F","a","l","s","e">>
      [] PyType(key) = "float" -> ReprFloat(val)

RECURSIVE ReprItems(_, _)
\* 'key': value of the given keys, joined by ", "
ReprItems(item, ks) ==
    IF ks = <<>> THEN <<>>
    ELSE LET k    == ks[Len(ks)]
             one  == <<"'">> \o KeyChars[k] \o <<"'", ":", " ">> \o Repr(k, item[k])
             rest == SubSeq(ks, 1, Len(ks) - 1)
         IN  IF rest = <<>> THEN one
             ELSE ReprItems(item, rest) \o <<",", " ">> \o one

\* str(item) of a dict: its items in insertion order between braces
Str(item) ==
    <<"{">> \o ReprItems(item, SelectSeq(KeyOrder, LAMBDA k : k \in DOMAIN item))
            \o <<"}">>

\* needle in hay, for two str
Contains(hay, needle) ==
    \E i \in 0..(Len(hay) - Len(needle)) :
        SubSeq(hay, i + 1, i + Len(needle)) = needle

\* the text of an item is not put in lower case before the comparison
SearchResults_CaseSensitive(records, term) ==
    IF term = <<>> THEN records
    ELSE SelectSeq(records, LAMBDA item : Contains(Str(item), Lower(term)))

\* what search_items(search_term) returns
SearchResults(records, term) ==
    IF term = <<>> THEN records
    ELSE SelectSeq(records, LAMBDA item : Contains(Lower(Str(item)), Lower(term)))

\* search terms: none, and part of a category in capitals
SearchTerms == { <<>>, <<"V","E","N">> }

\* search_items(search_term): ret "list" stands for the list in value
SearchItems ==
    \E term \in SearchTerms :
        /\ lastOp' = Call("search_items", [search_term |-> term], "list", "",
                          "none", "none") @@ [value |-> SearchResults(data, term)]
        /\ UNCHANGED <<tracker, data, file, faults>>
        /\ UNCHANGED appVars

----------------------------------------------------------------------------
(* GuestManager *)

Pending == <<"P","e","n","d","i","n","g">>

Confirmed == <<"C","o","n","f","i","r","m","e","d">>

Declined == <<"D","e","c","l","i","n","e","d">>

\* (name, email, phone) given to add_guest
GuestInputs ==
    LET jo == <<" ","j","O"," ">>
        ph == <<" ","7"," ">>
    IN  { <<jo, <<"a","@","b">>, ph>>,
          <<jo, <<" ","A","@","B"," ">>, ph>>,
          <<jo, <<"c","@","d">>, <<>>>>,
          <<<<" ">>, <<"c","@","d">>, ph>>,
          <<jo, <<" ">>, ph>>,
          <<<<>>, <<"a","@","b">>, ph>> }

\* emails given to update_rsvp
LookupEmails == { <<"A","@","b">>, <<" ","a","@","b">> }

\* statuses given to update_rsvp (the GUI passes the first two)
StatusInputs == { Confirmed, Declined, <<"M","a","y","b","e">> }

\* the duplicate loop starts at the second guest
MatchingGuests_SkipFirst(records, email) ==
    { i \in DOMAIN records : i > 1 /\ Lower(records[i].email) = Lower(email) }

\* indices of the guests the loop of add_guest / update_rsvp matches
MatchingGuests(records, email) ==
    { i \in DOMAIN records : Lower(records[i].email) = Lower(email) }

Min(S) == CHOOSE x \in S : \A y \in S : x <= y

\* the dict add_guest builds
NewGuest(name, email, phone, t) ==
    [name |-> name, email |-> email, phone |-> Strip(phone),
     rsvp |-> Pending, added_date |-> Strftime(t, "%Y-%m-%d %H:%M")]

\* add_guest(name, email, phone)
AddGuest ==
    /\ tracker = "GuestManager"
    /\ Len(data) < MaxRecords
    /\ \E in \in GuestInputs :
        LET nameIn  == in[1]
            emailIn == in[2]
            phone   == in[3]
            name    == Title(Strip(nameIn))
            email   == Lower(Strip(emailIn))
            args    == [name |-> nameIn, email |-> emailIn, phone |-> phone]
        IN  IF name = <<>> \/ email = <<>>
            THEN Raises("add_guest", args, "Name and email are required")
            ELSE IF MatchingGuests(data, email) # {}
            THEN Raises("add_guest", args, "Guest with this email already exists")
            ELSE \E t \in Times :
                    Mutates("add_guest", args, "None",
                            Append(data, NewGuest(name, email, phone, t)))

\* the assignment runs for every guest, not only the matching one
SetRsvp_AllGuests(records, i, status) ==
    [k \in DOMAIN records |-> [records[k] EXCEPT !.rsvp = status]]

\* guest['rsvp'] = status, for the guest at index i
SetRsvp(records, i, status) == [records EXCEPT ![i].rsvp = status]

\* update_rsvp(email, status)
UpdateRsvp ==
    /\ tracker = "GuestManager"
    /\ \E email \in LookupEmails, status \in StatusInputs :
        LET args == [email |-> email, status |-> status]
            hits == MatchingGuests(data, email)
        IN  IF hits = {}
            THEN Returns("update_rsvp", args, "False")
            ELSE Mutates("update_rsvp", args, "True",
                         SetRsvp(data, Min(hits), status))

\* status counted as Pending: an rsvp outside the three keys is counted too
GetRsvpSummary_UnknownAsPending(records) ==
    [st \in {Confirmed, Declined, Pending} |->
        Cardinality({ i \in DOMAIN records :
            LET status == IF "rsvp" \in DOMAIN records[i]
                          THEN records[i].rsvp ELSE Pending
            IN  IF status \in {Confirmed, Declined, Pending}
                THEN status = st ELSE st = Pending })]

RECURSIVE RsvpLoop(_, _)
\* the loop of get_rsvp_summary over the guests left to visit
RsvpLoop(summary, rest) ==
    IF rest = <<>> THEN summary
    ELSE LET guest  == Head(rest)
             status == IF "rsvp" \in DOMAIN guest THEN guest.rsvp ELSE Pending
         IN  RsvpLoop(IF status \in DOMAIN summary
                      THEN [summary EXCEPT ![status] = @ + 1]
                      ELSE summary,
                      Tail(rest))

\* get_rsvp_summary()
GetRsvpSummary(records) ==
    RsvpLoop([st \in {Confirmed, Declined, Pending} |-> 0], records)

----------------------------------------------------------------------------
(* TaskManager *)

DescriptionInputs == { <<" ">>, <<" ","d"," ">> }

PriorityInputs == { <<"H","i","g","h">> }

\* ids given to mark_completed: the id of no task, and three ids of tasks
TaskIdInputs == 0..3

\* the id is the current count, not the count plus one
NewTask_IdIsCount(records, description, priority, dueDate, t) ==
    [id |-> Len(records), description |-> description,
     priority |-> priority, due_date |-> dueDate, completed |-> FALSE,
     created_date |-> Strftime(t, "%Y-%m-%d")]

\* the dict add_task builds
NewTask(records, description, priority, dueDate, t) ==
    [id |-> Len(records) + 1, description |-> description,
     priority |-> priority, due_date |-> dueDate, completed |-> FALSE,
     created_date |-> Strftime(t, "%Y-%m-%d")]

\* add_task(description, priority, due_date="")
AddTask ==
    /\ tracker = "TaskManager"
    /\ Len(data) < MaxRecords
    /\ \E descIn \in DescriptionInputs, priority \in PriorityInputs :
        LET description == Strip(descIn)
            args == [description |-> descIn, priority |-> priority]
        IN  IF description = <<>>
            THEN Raises("add_task", args, "Task description is required")
            ELSE \E t \in Times :
                    Mutates("add_task", args, "None",
                            Append(data, NewTask(data, description, priority, <<>>, t)))

\* the flag is toggled instead of set
Completed_Toggles(task, t) ==
    [k \in DOMAIN task \cup {"completed_date"} |->
        CASE k = "completed"      -> ~task.completed
          [] k = "completed_date" -> Strftime(t, "%Y-%m-%d %H:%M")
          [] OTHER                -> task[k]]

\* the task dict after task['completed'] = True; task['completed_date'] = ...
Completed(task, t) ==
    [k \in DOMAIN task \cup {"completed_date"} |->
        CASE k = "completed"      -> TRUE
          [] k = "completed_date" -> Strftime(t, "%Y-%m-%d %H:%M")
          [] OTHER                -> task[k]]

\* mark_completed(task_id)
MarkCompleted ==
    /\ tracker = "TaskManager"
    /\ \E taskId \in TaskIdInputs :
        LET args == [task_id |-> taskId]
            hits == { i \in DOMAIN data : data[i].id = taskId }
        IN  IF hits = {}
            THEN Returns("mark_completed", args, "False")
            ELSE \E t \in Times :
                    Mutates("mark_completed", args, "True",
                            [data EXCEPT ![Min(hits)] = Completed(data[Min(hits)], t)])

\* pending is computed from the completed count alone
GetTaskSummary_PendingWrong(records) ==
    LET done == Cardinality({ i \in DOMAIN records : records[i].completed })
    IN  <<Len(records), done, Len(records) - done - 1>>

RECURSIVE CompletedLoop(_, _)
\* the loop of get_task_summary over the tasks left to visit
CompletedLoop(completed, rest) ==
    IF rest = <<>> THEN completed
    ELSE LET task == Head(rest)
             flag == IF "completed" \in DOMAIN task THEN task.completed ELSE FALSE
         IN  CompletedLoop(IF flag THEN completed + 1 ELSE completed, Tail(rest))

\* get_task_summary(): (total, completed, total - completed)
GetTaskSummary(records) ==
    LET total     == Len(records)
        completed == CompletedLoop(0, records)
    IN  <<total, completed, total - completed>>

----------------------------------------------------------------------------
(* BudgetManager *)

\* self.categories
Categories ==
    { <<"V","e","n","u","e">>, <<"F","o","o","d">>,
      <<"D","e","c","o","r","a","t","i","o","n","s">>,
      <<"E","n","t","e","r","t","a","i","n","m","e","n","t">>,
      <<"M","i","s","c","e","l","l","a","n","e","o","u","s">> }

\* (category, description, amount) given to add_expense
ExpenseInputs ==
    LET venue    == <<"v","e","n","u","e">>
        food     == <<" ","F","O","O","D"," ">>
        catering == <<"C","a","t","e","r","i","n","g">>
        hall     == <<" ","h","a","l","l"," ">>
    IN  { <<venue, hall, <<"0",".","1">>>>,
          <<food, hall, <<" ","2","5",".","5"," ">>>>,
          <<venue, hall, <<"n","a","n">>>>,
          <<catering, hall, <<"1","0">>>>,
          <<catering, <<>>, <<"a","b","c">>>>,
          <<venue, <<" ">>, <<"-","5">>>>,
          <<venue, hall, <<"a","b","c">>>>,
          <<venue, hall, <<>>>>,
          <<food, hall, <<"-","5">>>>,
          <<venue, hall, <<"0">>>> }

\* the dict add_expense builds
NewExpense(records, category, description, amount, t) ==
    [id |-> Len(records) + 1, category |-> category,
     description |-> description, amount |-> amount,
     date |-> Strftime(t, "%Y-%m-%d")]

\* add_expense(category, description, amount)
AddExpense ==
    /\ tracker = "BudgetManager"
    /\ Len(data) < MaxRecords
    /\ \E in \in ExpenseInputs :
        LET catIn       == in[1]
            descIn      == in[2]
            amountIn    == in[3]
            category    == Title(Strip(catIn))
            description == Strip(descIn)
            parsed      == ParseFloat(amountIn)
            args == [category |-> catIn, description |-> descIn, amount |-> amountIn]
        IN  IF category \notin Categories
            THEN Raises("add_expense", args, "Invalid category. Must be one of: ...")
            ELSE IF description = <<>>
            THEN Raises("add_expense", args, "Description is required")
            ELSE IF ~parsed.ok
            THEN Raises("add_expense", args, "Amount must be a valid number")
            ELSE IF FloatLeqZero(parsed.val)
            THEN Raises("add_expense", args, "Amount must be positive")
            ELSE \E t \in Times :
                    Mutates("add_expense", args, "None",
                            Append(data, NewExpense(data, category, description,
                                                    parsed.val, t)))

RECURSIVE BudgetLoop(_, _)
\* summary and total of get_budget_summary after its loop has visited the
\* first n expenses; summary is the dict as its (key, value) pairs in the
\* order of insertion
BudgetLoop(records, n) ==
    IF n = 0 THEN [summary |-> <<>>, total |-> Zero]
    ELSE LET before   == BudgetLoop(records, n - 1)
             category == records[n].category
             amount   == ToDouble(records[n].amount)
             started  == IF \E i \in DOMAIN before.summary :
                                before.summary[i][1] = category
                         THEN before.summary
                         ELSE Append(before.summary, <<category, Zero>>)
             k        == CHOOSE i \in DOMAIN started : started[i][1] = category
         IN  [summary |-> [started EXCEPT ![k] = <<category, FAdd(@[2], amount)>>],
              total   |-> FAdd(before.total, amount)]

\* get_budget_summary(): (summary, total)
GetBudgetSummary(records) == BudgetLoop(records, Len(records))

----------------------------------------------------------------------------
(* EventPlannerApp: event date, countdown and summary around one manager;
   tracker is the manager of the application that the behaviour follows, and
   the list widgets are left out *)

\* largest number of scheduled calls of update_countdown
MaxPending == 2

\* entries of the event date field: a day gone by, a day to come, no date
DateInputs == { <<"0">>, <<"9">>, <<"x">>, <<>> }

\* datetime.strptime(s, "%Y-%m-%d"), reading what Strftime writes for that
\* format: ok = FALSE stands for ValueError
Strptime(s) ==
    IF Len(s) = 1 /\ IsDigit(s[1])
    THEN [ok |-> TRUE, val |-> [day |-> DigitVal(s[1]), minute |-> 0]]
    ELSE [ok |-> FALSE, val |-> NoDate]

\* t + timedelta(days=days)
PlusDays(t, days) == [t EXCEPT !.day = @ + days]

\* a - b in minutes
MinutesBetween(a, b) == (a.day - b.day) * 1440 + (a.minute - b.minute)

\* the text update_countdown computes
CountdownText(eventDate, now) ==
    IF MinutesBetween(eventDate, now) > 0
    THEN LET delta     == MinutesBetween(eventDate, now)
             days      == delta \div 1440
             seconds   == (delta % 1440) * 60
             hours     == seconds \div 3600
             remainder == seconds % 3600
             minutes   == remainder \div 60
         IN  ReprInt(days) \o <<" ","d","a","y","s",","," ">> \o ReprInt(hours)
                 \o <<" ","h","o","u","r","s",","," ">> \o ReprInt(minutes)
                 \o <<" ","m","i","n","u","t","e","s">>
    ELSE <<"E","v","e","n","t"," ","h","a","s"," ","p","a","s","s","e","d","!">>

\* the numbers update_summary reads from the manager and puts into the text
\* (the fixed parts of the text and the formatting of the numbers are left
\* out)
SummaryText(kind, records) ==
    CASE kind = "GuestManager"  -> [invited |-> Len(records),
                                    rsvp |-> GetRsvpSummary(records)]
      [] kind = "TaskManager"   -> [tasks |-> GetTaskSummary(records)]
      [] kind = "BudgetManager" -> [budget |-> GetBudgetSummary(records)]

\* the body of update_countdown, run at time now with the event date
\* eventDate: label, summary, and one more scheduled call
CountdownBody(eventDate, now, scheduled) ==
    /\ countdown_label' = CountdownText(eventDate, now)
    /\ summary_text' = SummaryText(tracker, data)
    /\ pending' = scheduled + 1

\* EventPlannerApp.__init__ with storage that works: the managers load,
\* the event date is 30 days ahead, and update_countdown runs once
InitApp ==
    /\ tracker \in Trackers
    /\ file \in InitialFiles
    /\ faults = MaxFaults
    /\ LET r == LoadData(file, "ok")
       IN  /\ data = r.data
           /\ lastOp = Call("__init__", [io |-> "ok"], "None", "", r.load, "none")
           /\ summary_text = SummaryText(tracker, r.data)
    /\ \E t \in Times :
          /\ event_date = PlusDays(t, 30)
          /\ \E now \in Times :
                /\ now.minute >= t.minute
                /\ countdown_label = CountdownText(PlusDays(t, 30), now)
    /\ pending = 1

\* update_event_date(): the entry of the date field is parsed; a date is
\* stored and update_countdown is called, anything else shows an error
UpdateEventDate ==
    \E s \in DateInputs :
        LET parsed == Strptime(s)
            args   == [date_str |-> s]
        IN  IF parsed.ok
            THEN /\ pending < MaxPending
                 /\ event_date' = parsed.val
                 /\ \E now \in Times : CountdownBody(parsed.val, now, pending)
                 /\ lastOp' = Call("update_event_date", args, "None",
                                   "Event date updated!", "none", "none")
                 /\ UNCHANGED <<tracker, data, file, faults>>
            ELSE /\ lastOp' = Call("update_event_date", args, "None",
                                   "Invalid date format. Use YYYY-MM-DD",
                                   "none", "none")
                 /\ UNCHANGED <<tracker, data, file, faults>>
                 /\ UNCHANGED appVars

\* a scheduled call of update_countdown runs
UpdateCountdown ==
    /\ pending > 0
    /\ \E now \in Times :
          /\ CountdownBody(event_date, now, pending - 1)
          /\ lastOp' = Call("update_countdown", [now |-> now], "None", "",
                            "none", "none")
    /\ UNCHANGED <<tracker, data, file, faults, event_date>>

----------------------------------------------------------------------------
(* Specification *)

Next ==
    \/ Construct
    \/ AddGuest
    \/ UpdateRsvp
    \/ AddTask
    \/ MarkCompleted
    \/ AddExpense
    \/ SearchItems

Spec == Init /\ [][Next]_vars

\* the callbacks of the application window and its timer
NextApp ==
    \/ AddGuest
    \/ UpdateRsvp
    \/ AddTask
    \/ MarkCompleted
    \/ AddExpense
    \/ UpdateEventDate
    \/ UpdateCountdown

SpecApp == InitApp /\ [][NextApp]_vars

----------------------------------------------------------------------------
(* Properties *)

\* the list a fresh instance constructed on file f holds
Reload(f) == LoadData(f, "ok").data

SaveFailed(call) == call.save \in {"open_failed", "write_failed"}

EmailAB == <<"a","@","b">>

\* C1: no two guests have emails that are equal ignoring case, and add_guest
\* with an email that, trimmed, equals an existing guest's email ignoring case
\* raises (with the duplicate message when the name is valid) and adds nothing.
C1_UniqueEmails ==
    [][ /\ \A i, j \in DOMAIN data' :
            (tracker = "GuestManager" /\ i # j)
                => Lower(data'[i].email) # Lower(data'[j].email)
        /\ (/\ lastOp'.op = "add_guest"
            /\ \E i \in DOMAIN data :
                  Lower(data[i].email) = Lower(Strip(lastOp'.args.email)))
           => /\ lastOp'.ret = "ValueError"
              /\ data' = data
              /\ Strip(lastOp'.args.name) # <<>>
                    => lastOp'.msg = "Guest with this email already exists"
      ]_vars

C1_Witness ==
    /\ lastOp.op = "add_guest"
    /\ lastOp.msg = "Guest with this email already exists"
    /\ lastOp.args.email = <<" ","A","@","B"," ">>
    /\ \E i \in DOMAIN data : data[i].email = EmailAB

\* C2: a save whose write raises after the file was opened leaves the file
\* with the content it had before the save.
C2_FailedSaveKeepsFile ==
    [][ lastOp'.save = "write_failed" => file' = file ]_vars

\* C3: right after a mutating operation whose save succeeded, the file holds
\* the in-memory sequence, record for record and in the same order.
C3_SavedFileEqualsData ==
    lastOp.save = "ok"
        => /\ file.exists
           /\ JsonLoad(file.text).ok
           /\ JsonLoad(file.text).val = data

C3_Witness ==
    /\ lastOp.op = "mark_completed"
    /\ lastOp.save = "ok"
    /\ Len(data) = 2
    /\ data[2].completed /\ ~data[1].completed

\* C4: with working storage (no storage failure so far), a fresh instance
\* constructed on the same file holds the same sequence as the instance
\* before it: same length, same order, same value in every field.
C4_RoundTrip ==
    [][ (lastOp'.op = "__init__" /\ faults' = 0) => data' = data ]_vars

C4_Witness ==
    /\ lastOp.op = "__init__"
    /\ lastOp.load = "ok"
    /\ faults = 0
    /\ Len(data) = 2
    /\ tracker = "BudgetManager"
    /\ data[1].category # data[2].category

\* what each mutating operation leaves in memory, whatever its save did
KeepsMutation(old, new, call) ==
    CASE call.op \in {"add_guest", "add_task", "add_expense"} ->
            /\ Len(new) = Len(old) + 1
            /\ SubSeq(new, 1, Len(old)) = old
      [] call.op = "update_rsvp" ->
            \E i \in DOMAIN new : /\ Lower(new[i].email) = Lower(call.args.email)
                                  /\ new[i].rsvp = call.args.status
      [] call.op = "mark_completed" ->
            \E i \in DOMAIN new : /\ new[i].id = call.args.task_id
                                  /\ new[i].completed
      [] OTHER -> FALSE

\* C5 as stated: a failed save never reaches the caller, the operation ends
\* as if it had succeeded, memory keeps the mutation, and memory then holds
\* changes that the file does not.
C5_FailedSaveLeavesFileBehind ==
    [][ SaveFailed(lastOp')
          => /\ lastOp'.ret \in {"None", "True"}
             /\ KeepsMutation(data, data', lastOp')
             /\ Reload(file') # data'
      ]_vars

\* C5, amended: a failed save never reaches the caller, the operation ends as
\* if it had succeeded and memory keeps the mutation; memory then holds
\* changes that the file does not whenever the file matched the sequence
\* before the operation and the operation changed the sequence.
C5_FailedSaveIsSilent ==
    [][ SaveFailed(lastOp')
          => /\ lastOp'.ret \in {"None", "True"}
             /\ KeepsMutation(data, data', lastOp')
             /\ (Reload(file) = data /\ data' # data) => Reload(file') # data'
      ]_vars

C5_Witness ==
    /\ lastOp.op = "update_rsvp"
    /\ lastOp.save = "write_failed"
    /\ lastOp.ret = "True"
    /\ \E i \in DOMAIN data : data[i].rsvp = Confirmed
    /\ Reload(file) # data

\* C6: when loading fails at construction the constructor returns normally
\* and the in-memory sequence is empty.
C6_FailedLoadLeavesEmpty ==
    (lastOp.op = "__init__" /\ lastOp.load = "failed")
        => (lastOp.ret = "None" /\ data = <<>>)

C6_Witness ==
    /\ lastOp.op = "__init__"
    /\ lastOp.load = "failed"
    /\ lastOp.args.io = "ok"
    /\ \E i \in DOMAIN file.text : file.text[i].tok = "obj"

UnparseableAmounts == { <<"a","b","c">>, <<>> }

NonPositiveAmounts == { <<"-","5">>, <<"0">> }

\* the inputs the claim calls invalid, for a call on the list old
InvalidAdd(old, call) ==
    CASE call.op = "add_guest" ->
            \/ Strip(call.args.name) = <<>>
            \/ Strip(call.args.email) = <<>>
            \/ \E i \in DOMAIN old :
                  Lower(old[i].email) = Lower(Strip(call.args.email))
      [] call.op = "add_task" -> Strip(call.args.description) = <<>>
      [] call.op = "add_expense" ->
            \/ Title(Strip(call.args.category)) \notin Categories
            \/ Strip(call.args.description) = <<>>
            \/ call.args.amount \in UnparseableAmounts \cup NonPositiveAmounts
      [] OTHER -> FALSE

\* C7: an add that fails validation or the duplicate check raises, appends
\* nothing, leaves the sequence and the file as they were and runs no save;
\* with a valid category and description, an unparseable amount and a
\* non-positive amount raise with different messages.
C7_InvalidAddRaises ==
    [][ /\ InvalidAdd(data, lastOp') => lastOp'.ret = "ValueError"
        /\ lastOp'.ret = "ValueError"
              => (data' = data /\ file' = file /\ lastOp'.save = "none")
        /\ (/\ lastOp'.op = "add_expense"
            /\ Title(Strip(lastOp'.args.category)) \in Categories
            /\ Strip(lastOp'.args.description) # <<>>)
           => /\ lastOp'.args.amount \in UnparseableAmounts
                    => lastOp'.msg = "Amount must be a valid number"
              /\ lastOp'.args.amount \in NonPositiveAmounts
                    => lastOp'.msg = "Amount must be positive"
      ]_vars

C7_Witness ==
    /\ lastOp.op = "add_expense"
    /\ lastOp.ret = "ValueError"
    /\ lastOp.msg = "Amount must be positive"
    /\ Len(data) = 1

\* the call's key matches no record of the list old
NoMatch(old, call) ==
    CASE call.op = "update_rsvp" ->
            \A i \in DOMAIN old : Lower(old[i].email) # Lower(call.args.email)
      [] call.op = "mark_completed" ->
            \A i \in DOMAIN old : old[i].id # call.args.task_id
      [] OTHER -> FALSE

\* C8: update_rsvp and mark_completed with a key that matches no record
\* return False without raising, change nothing in memory and do not write
\* the file.
C8_NotFoundChangesNothing ==
    [][ NoMatch(data, lastOp')
          => /\ lastOp'.ret = "False"
             /\ data' = data
             /\ file' = file
             /\ lastOp'.save = "none"
      ]_vars

C8_Witness ==
    /\ lastOp.op = "update_rsvp"
    /\ lastOp.ret = "False"
    /\ lastOp.args.email = <<" ","a","@","b">>
    /\ \E i \in DOMAIN data : data[i].email = EmailAB

\* f > 0 for a float f: no comparison with nan is true
FloatGtZero(f) ==
    CASE f.cls = "nan"    -> FALSE
      [] f.cls = "inf"    -> f.v > 0
      [] f.cls = "finite" -> f.v > 0

\* C9: every stored expense has a category of the fixed set and an amount
\* strictly greater than 0.
C9_ExpensesValid ==
    tracker = "BudgetManager"
        => \A i \in DOMAIN data :
              /\ data[i].category \in Categories
              /\ FloatGtZero(data[i].amount)

\* the fields of a guest that no operation changes
GuestIdentity(g) == <<g.name, g.email, g.phone, g.added_date>>

\* C10: no call on a guest registry removes or reorders guests or changes a
\* guest's name, email, phone or added_date; a successful add_guest appends
\* one Pending guest; update_rsvp changes only the rsvp of the first guest
\* whose email matches ignoring case.
C10_GuestsOnlyGrow ==
    [][ (tracker = "GuestManager" /\ lastOp'.op # "__init__")
          => /\ Len(data') >= Len(data)
             /\ \A i \in DOMAIN data : GuestIdentity(data'[i]) = GuestIdentity(data[i])
             /\ (lastOp'.op = "add_guest" /\ lastOp'.ret = "None")
                   => /\ Len(data') = Len(data) + 1
                      /\ SubSeq(data', 1, Len(data)) = data
                      /\ data'[Len(data')].rsvp = Pending
             /\ (lastOp'.op = "add_guest" /\ lastOp'.ret # "None") => data' = data
             /\ lastOp'.op = "update_rsvp"
                   => /\ Len(data') = Len(data)
                      /\ \A i \in DOMAIN data :
                            IF /\ Lower(data[i].email) = Lower(lastOp'.args.email)
                               /\ \A k \in 1..(i - 1) :
                                     Lower(data[k].email) # Lower(lastOp'.args.email)
                            THEN data'[i].rsvp = lastOp'.args.status
                            ELSE data'[i] = data[i]
      ]_vars

C10_Witness ==
    /\ lastOp.op = "update_rsvp"
    /\ lastOp.ret = "True"
    /\ Len(data) = 2
    /\ data[2].email = EmailAB
    /\ data[2].rsvp = <<"M","a","y","b","e">>
    /\ data[1].rsvp = Pending

\* index of the first task with the given id, 0 when there is none
FirstWithId(records, id) ==
    IF \E i \in DOMAIN records : records[i].id = id
    THEN Min({ i \in DOMAIN records : records[i].id = id })
    ELSE 0

\* the fields of a task that completing it leaves alone
TaskRest(task) ==
    <<task.id, task.description, task.priority, task.due_date, task.created_date>>

\* C11: mark_completed on a task that is already completed returns True and
\* leaves it completed, changing nothing but completed_date; no call on a task
\* registry makes a completed task incomplete, and the completed count of
\* get_task_summary never decreases.
C11_CompletionIsKept ==
    [][ (tracker = "TaskManager" /\ lastOp'.op # "__init__")
          => /\ Len(data') >= Len(data)
             /\ \A i \in DOMAIN data : data[i].completed => data'[i].completed
             /\ GetTaskSummary(data')[2] >= GetTaskSummary(data)[2]
             /\ LET k == IF lastOp'.op = "mark_completed"
                         THEN FirstWithId(data, lastOp'.args.task_id) ELSE 0
                IN  (k # 0 /\ data[k].completed)
                       => /\ lastOp'.ret = "True"
                          /\ data'[k].completed
                          /\ TaskRest(data'[k]) = TaskRest(data[k])
                          /\ \A j \in DOMAIN data : j # k => data'[j] = data[j]
      ]_vars

\* a second mark_completed, whose save could not open the file, stamped a
\* completed task again: the file still has the earlier completed_date
C11_Witness ==
    /\ lastOp.op = "mark_completed"
    /\ lastOp.ret = "True"
    /\ lastOp.save = "open_failed"
    /\ \E i \in DOMAIN data :
          /\ i \in DOMAIN Reload(file)
          /\ Reload(file)[i].completed
          /\ data[i].completed
          /\ Reload(file)[i].completed_date # data[i].completed_date

\* C12: get_task_summary returns (total, completed, pending) with total the
\* number of tasks, completed the number of tasks whose flag is true and
\* pending = total - completed.
C12_TaskSummary ==
    tracker = "TaskManager"
        => LET summary == GetTaskSummary(data)
               done    == Cardinality({ i \in DOMAIN data : data[i].completed })
           IN  /\ summary[1] = Len(data)
               /\ summary[2] = done
               /\ summary[3] = Len(data) - done

\* three tasks added and one completed: (3, 1, 2)
C12_Witness ==
    /\ tracker = "TaskManager"
    /\ lastOp.op = "mark_completed"
    /\ Len(data) = 3
    /\ GetTaskSummary(data) = <<3, 1, 2>>

\* the guests as a file written without the rsvp member would load them
WithoutRsvp(records) ==
    [i \in DOMAIN records |->
        [k \in (DOMAIN records[i]) \ {"rsvp"} |-> records[i][k]]]

\* C14: get_rsvp_summary counts, for each of Confirmed, Declined and Pending,
\* the guests with that rsvp, a guest without rsvp counting as Pending; a
\* guest with any other status is counted nowhere, so the counts sum to the
\* number of guests exactly when every status is one of the three.
C14_RsvpSummary ==
    tracker = "GuestManager"
        => LET summary == GetRsvpSummary(data)
               bare    == GetRsvpSummary(WithoutRsvp(data))
               known   == {Confirmed, Declined, Pending}
           IN  /\ DOMAIN summary = known
               /\ \A st \in known :
                     summary[st] = Cardinality({ i \in DOMAIN data : data[i].rsvp = st })
               /\ (summary[Confirmed] + summary[Declined] + summary[Pending] = Len(data))
                     <=> (\A i \in DOMAIN data : data[i].rsvp \in known)
               /\ bare[Pending] = Len(data)
               /\ bare[Confirmed] = 0
               /\ bare[Declined] = 0

\* update_rsvp set one of two guests to "Maybe" and the other is still
\* Pending: the summary counts one guest
C14_Witness ==
    /\ tracker = "GuestManager"
    /\ lastOp.op = "update_rsvp"
    /\ Len(data) = 2
    /\ \E i, j \in DOMAIN data :
          /\ data[i].rsvp = <<"M","a","y","b","e">>
          /\ data[j].rsvp = Pending
    /\ GetRsvpSummary(data) =
          (Confirmed :> 0) @@ (Declined :> 0) @@ (Pending :> 1)

\* C16: in a task registry and in an expense registry the record at position
\* i has id i, so ids are pairwise distinct, and mark_completed(k) with
\* 1 <= k <= number of tasks changes the k-th task and no other one.
C16_IdIsPosition ==
    [][ (tracker # "GuestManager")
          => /\ \A i \in DOMAIN data' : data'[i].id = i
             /\ \A i, j \in DOMAIN data' : data'[i].id = data'[j].id => i = j
             /\ (lastOp'.op = "mark_completed" /\ lastOp'.args.task_id \in 1..Len(data))
                   => /\ lastOp'.ret = "True"
                      /\ Len(data') = Len(data)
                      /\ data'[lastOp'.args.task_id].completed
                      /\ \A j \in DOMAIN data :
                            j # lastOp'.args.task_id => data'[j] = data[j]
      ]_vars

\* mark_completed(2) on three tasks completed the second one only
C16_Witness ==
    /\ tracker = "TaskManager"
    /\ lastOp.op = "mark_completed"
    /\ lastOp.args.task_id = 2
    /\ Len(data) = 3
    /\ data[2].completed
    /\ ~data[1].completed
    /\ ~data[3].completed

RECURSIVE SumOf(_)
\* the sum of a sequence of floats, added from left to right
SumOf(values) ==
    IF values = <<>> THEN Zero
    ELSE FAdd(SumOf(SubSeq(values, 1, Len(values) - 1)), values[Len(values)])

RECURSIVE AmountsOf(_, _)
\* the amounts of the expenses of the given categories, in stored order
AmountsOf(records, categories) ==
    IF records = <<>> THEN <<>>
    ELSE LET front == AmountsOf(SubSeq(records, 1, Len(records) - 1), categories)
             last  == records[Len(records)]
         IN  IF last.category \in categories
             THEN Append(front, ToDouble(last.amount))
             ELSE front

\* the values of the summary mapping, in the order of insertion
SummaryValues(summary) ==
    [i \in DOMAIN summary |-> summary[i][2]]

\* C13: in every reachable state get_budget_summary returns a mapping whose
\* keys are exactly the categories with a stored expense, each mapped to the
\* sum of that category's amounts, and a total equal to the sum of all
\* amounts, which equals the sum of the mapping's values (nan is taken to
\* equal nan).
C13_BudgetSummary ==
    tracker = "BudgetManager"
        => LET result  == GetBudgetSummary(data)
               summary == result.summary
               keys    == { summary[i][1] : i \in DOMAIN summary }
               stored  == { data[i].category : i \in DOMAIN data }
           IN  /\ keys = stored
               /\ Cardinality(keys) = Len(summary)
               /\ \A i \in DOMAIN summary :
                     summary[i][2] = SumOf(AmountsOf(data, {summary[i][1]}))
               /\ result.total = SumOf(AmountsOf(data, stored))
               /\ result.total = SumOf(SummaryValues(summary))

\* the text holds the term at some position, letters compared without case
MatchesIgnoringCase(text, term) ==
    \E i \in 0..(Len(text) - Len(term)) :
        \A j \in 1..Len(term) : LowerChar(text[i + j]) = LowerChar(term[j])

\* C15: search_items("") returns the full list; search_items(term) with a
\* non-empty term returns, in stored order, exactly the records whose str()
\* contains the term ignoring case; a search changes neither the list nor
\* the file, so a search repeated with the same term returns the same.
C15_Search ==
    [][ lastOp'.op = "search_items"
          => LET term   == lastOp'.args.search_term
                 result == lastOp'.value
             IN  /\ data' = data
                 /\ file' = file
                 /\ term = <<>> => result = data
                 /\ term # <<>>
                       => result = SelectSeq(data,
                              LAMBDA item : MatchesIgnoringCase(Str(item), term))
                 /\ (lastOp.op = "search_items" /\ lastOp.args.search_term = term)
                       => result = lastOp.value
      ]_vars

\* search_items("VEN") on a Venue, a Food and a Venue expense returned the
\* first and the third
C15_Witness ==
    /\ tracker = "BudgetManager"
    /\ lastOp.op = "search_items"
    /\ lastOp.args.search_term = <<"V","E","N">>
    /\ Len(data) = 3
    /\ data[2].category = <<"F","o","o","d">>
    /\ lastOp.value = <<data[1], data[3]>>

\* C17: the countdown refresh is a single periodic chain that never changes
\* a registry: at most one call of update_countdown is scheduled in every
\* state of the application, also after update_event_date, and each run of
\* update_countdown leaves the registry's list and file unchanged.
C17_SingleCountdownChain ==
    [][ /\ pending' <= 1
        /\ lastOp'.op \in {"update_countdown", "update_event_date"}
              => (data' = data /\ file' = file)
      ]_vars

====
